---- MODULE Spec2Model ----
(***************************************************************************)
(* Model of code/augment_text.py: text augmentation for Korean dialogue    *)
(* summarization datasets.                                                 *)
(*                                                                         *)
(* A text is a sequence of characters.  An ASCII character is the string  *)
(* holding it; a Hangul syllable is its romanisation with a capital first *)
(* letter ("An" is U+C548, "A" is U+C544), so that a text keeps the        *)
(* length and the substrings the Python str has.                           *)
(*                                                                         *)
(* The module-global generator `random` is a record [stream, pos]: the    *)
(* outputs the generator yields after random.seed(seed), and the number   *)
(* of outputs drawn so far.  Probabilities are counted in tenths           *)
(* (p_syn = 0.3 is 3).                                                     *)
(***************************************************************************)
EXTENDS Integers, Sequences, FiniteSets, TLC

VARIABLES
    pc,       \* position of the caller: "ready", or the function that returned
    text,     \* the text passed to a transform
    p,        \* the probability passed to a transform, in tenths
    cfg,      \* the AugmentConfig passed to augment_dialogue
    rng,      \* the module-global generator
    res,      \* what the last call returned and what it recorded on the way
    df,       \* the rows read from input_csv
    factor,   \* --factor, in halves
    limit,    \* --limit: <<>> is None, <<k>> the integer k
    seed,     \* --seed: the stream random.seed(seed) selects
    written,  \* per run: whether output_csv was written, and its rows
    ret       \* per run: the pair returned, or the exception raised

vars == <<pc, text, p, cfg, rng, res, df, factor, limit, seed, written, ret>>

(***************************************************************************)
(* Bounds of the model.                                                    *)
(***************************************************************************)
MaxSegs == 2      \* a text is at most MaxSegs segments long
StreamLen == 2    \* period of a generator stream
RandRes == 3      \* a generator output is one of 0 .. RandRes-1
MaxRows == 2      \* rows of an input dataset
MaxRuns == 2      \* runs of run_augment on the same input

(***************************************************************************)
(* Characters.                                                             *)
(***************************************************************************)
Digits == {"1", "2"}
NonWord == {" ", "\n", "#", ".", ",", "?", "!", ";", "<", ">"}
Whitespace == {" ", "\n"}

\* \w of a str pattern: letters (Hangul included), digits and underscore
IsWord(ch) == ch \notin NonWord
IsDigit(ch) == ch \in Digits
IsSpace(ch) == ch \in Whitespace

Max(a, b) == IF a >= b THEN a ELSE b

\* e, once v is computed: each loop below computes the state it is handed
\* before it goes on, as the interpreter does
Then(v, e) == IF v = v THEN e ELSE e

(***************************************************************************)
(* str operations.                                                         *)
(***************************************************************************)
\* text[i-1 : i-1+len(key)] == key  (i is 1-based)
IsAt(s, key, i) ==
    /\ i >= 1
    /\ i + Len(key) - 1 <= Len(s)
    /\ \A j \in 1..Len(key) : s[i + j - 1] = key[j]

\* key in s
Contains(s, key) == \E i \in 1..Len(s) : IsAt(s, key, i)

\* s.find(key) + 1, or 0
Find(s, key) ==
    IF Contains(s, key)
    THEN CHOOSE i \in 1..Len(s) :
            IsAt(s, key, i) /\ \A j \in 1..(i - 1) : ~IsAt(s, key, j)
    ELSE 0

\* s.replace(key, cand): every occurrence, not the first alone
RECURSIVE ReplaceEvery(_, _, _)
ReplaceEvery(s, key, cand) ==
    LET i == Find(s, key) IN
    IF i = 0 THEN s
    ELSE SubSeq(s, 1, i - 1) \o cand
         \o ReplaceEvery(SubSeq(s, i + Len(key), Len(s)), key, cand)

\* s.replace(key, cand, 1)
ReplaceFirst(s, key, cand) ==
    LET i == Find(s, key) IN
    IF i = 0 THEN s
    ELSE SubSeq(s, 1, i - 1) \o cand \o SubSeq(s, i + Len(key), Len(s))

(***************************************************************************)
(* The generator.                                                          *)
(***************************************************************************)
\* no call of random.seed: the generator stays in the state it is in
RandomSeedSkipped(g, s) == g

\* random.seed(seed): the stream of the seed, from its start
RandomSeed(g, s) == [stream |-> s, pos |-> 0]

NextRaw(g) == g.stream[(g.pos % Len(g.stream)) + 1]
Advance(g) == [g EXCEPT !.pos = @ + 1]

\* random.random() < q, q in tenths: the output u stands for u / RandRes
RandomBelow(g, q) == NextRaw(g) * 10 < q * RandRes

\* random.randrange(n), n > 0
RandRange(g, n) == NextRaw(g) % n

\* random_choice(seq): the value; the caller advances the generator
random_choice(seq, g) == seq[RandRange(g, Len(seq)) + 1]

(***************************************************************************)
(* PHRASE_SYNONYMS, in the dict's insertion order, and FILLERS.            *)
(***************************************************************************)
PHRASE_SYNONYMS == <<
    \* Greetings
    [key  |-> <<"An", "Nyeong", "Ha", "Se", "Yo">>,
     alts |-> << <<"An", "Nyeong", "Ha", "Sip", "Ni", "Kka">>,
                 <<"An", "Nyeong">>,
                 <<"Ban", "Gap", "Seup", "Ni", "Da">> >>],
    [key  |-> <<"An", "Nyeong">>,
     alts |-> << <<"An", "Nyeong", "Ha", "Se", "Yo">>,
                 <<"An", "Nyeong", "Ha", "Sip", "Ni", "Kka">> >>],
    \* Thanks / apology
    [key  |-> <<"Gam", "Sa", "Hap", "Ni", "Da">>,
     alts |-> << <<"Go", "Map", "Seup", "Ni", "Da">>,
                 <<"Jeong", "Mal", " ", "Gam", "Sa", "Hap", "Ni", "Da">>,
                 <<"Gam", "Sa", "Hae", "Yo">> >>],
    [key  |-> <<"Go", "Map", "Seup", "Ni", "Da">>,
     alts |-> << <<"Gam", "Sa", "Hap", "Ni", "Da">>,
                 <<"Gam", "Sa", "Hae", "Yo">> >>],
    [key  |-> <<"Mi", "An">>,
     alts |-> << <<"Joe", "Song">>,
                 <<"Mi", "An", "Hae", "Yo">>,
                 <<"Mi", "An", "Hap", "Ni", "Da">> >>],
    [key  |-> <<"Joe", "Song">>,
     alts |-> << <<"Joe", "Song", "Hap", "Ni", "Da">>,
                 <<"Jeong", "Mal", " ", "Joe", "Song", "Hap", "Ni", "Da">>,
                 <<"Mi", "An", "Hap", "Ni", "Da">> >>],
    \* Doctor / hospital context
    [key  |-> <<"Ui", "Sa", " ", "Seon", "Saeng", "Nim">>,
     alts |-> << <<"Ui", "Sa", "Nim">>,
                 <<"Seon", "Saeng", "Nim">> >>],
    [key  |-> <<"Ui", "Sa", "Nim">>,
     alts |-> << <<"Ui", "Sa", " ", "Seon", "Saeng", "Nim">>,
                 <<"Seon", "Saeng", "Nim">> >>],
    [key  |-> <<"Byeong", "Won">>,
     alts |-> << <<"Ui", "Won">>,
                 <<"Byeong", "Won">> >>],
    [key  |-> <<"Geom", "Jin">>,
     alts |-> << <<"Geon", "Gang", "Geom", "Jin">>,
                 <<"Geom", "Sa">> >>],
    [key  |-> <<"Baek", "Sin">>,
     alts |-> << <<"Ye", "Bang", "Jeop", "Jong">>,
                 <<"Jeop", "Jong">> >>],
    \* Common polite endings or discourse markers
    [key  |-> <<"Geu", "Reon", "De">>,
     alts |-> << <<"Geun", "De">>,
                 <<"Ha", "Ji", "Man">> >>],
    [key  |-> <<"Ha", "Ji", "Man">>,
     alts |-> << <<"Geu", "Reon", "De">>,
                 <<"Geun", "De">> >>],
    [key  |-> <<"Jeong", "Mal">>,
     alts |-> << <<"Jin", "Jja">>,
                 <<"A", "Ju">> >>]
>>

FILLERS == <<
    <<"Eum">>, <<"Eo">>, <<"A">>, <<"E">>, <<"Eum", ".", ".", ".">>,
    <<"Eu", "Eum">>, <<"Heum">>
>>

NUM == <<"<", "N", "U", "M", ">">>

\* PHRASE_SYNONYMS[key]
Synonyms(key) ==
    PHRASE_SYNONYMS[
        CHOOSE i \in 1..Len(PHRASE_SYNONYMS) : PHRASE_SYNONYMS[i].key = key
    ].alts

LongestKey ==
    CHOOSE n \in 0..20 :
        /\ \A i \in 1..Len(PHRASE_SYNONYMS) : Len(PHRASE_SYNONYMS[i].key) <= n
        /\ \E i \in 1..Len(PHRASE_SYNONYMS) : Len(PHRASE_SYNONYMS[i].key) = n

\* the keys of length n, in insertion order
RECURSIVE KeysOfLen(_, _)
KeysOfLen(n, i) ==
    IF i > Len(PHRASE_SYNONYMS) THEN <<>>
    ELSE (IF Len(PHRASE_SYNONYMS[i].key) = n
          THEN <<PHRASE_SYNONYMS[i].key>> ELSE <<>>)
         \o KeysOfLen(n, i + 1)

\* sorted(PHRASE_SYNONYMS.keys(), key=len, reverse=True): a stable sort, so
\* keys of one length keep their insertion order
RECURSIVE SortedFrom(_)
SortedFrom(n) ==
    IF n = 0 THEN <<>> ELSE KeysOfLen(n, 1) \o SortedFrom(n - 1)

keys_sorted == SortedFrom(LongestKey)

(***************************************************************************)
(* replace_phrases.  Beside [out, rng] the model records, per key visited, *)
(* the text before and after the visit and whether str.replace ran.        *)
(***************************************************************************)
\* one pass of the loop body, for key
ReplaceKey(key, st, q) ==
    LET hit  == RandomBelow(st.rng, q) /\ Contains(st.out, key)
        g1   == Advance(st.rng)
        cand == random_choice(Synonyms(key), g1)
        out1 == IF hit THEN ReplaceFirst(st.out, key, cand) ELSE st.out
    IN  [out   |-> out1,
         rng   |-> IF hit THEN Advance(g1) ELSE g1,
         trace |-> Append(st.trace,
                     [key |-> key, before |-> st.out, after |-> out1,
                      hit |-> hit, cand |-> IF hit THEN cand ELSE <<>>])]

RECURSIVE ReplaceLoop(_, _, _)
ReplaceLoop(i, st, q) ==
    Then(st,
         IF i > Len(keys_sorted) THEN st
         ELSE ReplaceLoop(i + 1, ReplaceKey(keys_sorted[i], st, q), q))

replace_phrases(t, q, g) ==
    IF q <= 0 THEN [out |-> t, rng |-> g, trace |-> <<>>]
    ELSE ReplaceLoop(1, [out |-> t, rng |-> g, trace |-> <<>>], q)

(***************************************************************************)
(* mask_numbers.  _NUM_RE = (?<![#\w])\d+(?:[.,]\d+)?(?![#\w])             *)
(***************************************************************************)
\* the characters (?<![#\w]) and (?![#\w]) reject
IsTagOrWord(ch) == ch = "#" \/ IsWord(ch)

\* the number of digits of s from position i on
RECURSIVE DigitRun(_, _)
DigitRun(s, i) ==
    IF i <= Len(s) /\ IsDigit(s[i]) THEN 1 + DigitRun(s, i + 1) ELSE 0

\* the ways \d+(?:[.,]\d+)?(?![#\w]) can match at i: d digits, then either
\* no group (g = 0) or a separator and g digits; each with the last position
NumCandidates(s, i) ==
    {c \in [d : 1..DigitRun(s, i), g : 0..Len(s), e : 1..Len(s)] :
        /\ \/ c.g = 0 /\ c.e = i + c.d - 1
           \/ /\ c.g >= 1
              /\ i + c.d <= Len(s)
              /\ s[i + c.d] \in {".", ","}
              /\ c.g <= DigitRun(s, i + c.d + 1)
              /\ c.e = i + c.d + c.g
        /\ (c.e < Len(s) => ~IsTagOrWord(s[c.e + 1]))}

\* _NUM_RE matching at i: the last position of the match, or 0.  The engine
\* backtracks from the greedy choice: the longest \d+ first, and for it the
\* group with its longest \d+ before the match without the group.
NumMatchEnd(s, i) ==
    LET cs == IF i > 1 /\ IsTagOrWord(s[i - 1]) THEN {} ELSE NumCandidates(s, i)
    IN  IF cs = {} THEN 0
        ELSE (CHOOSE c \in cs :
                \A o \in cs : o.d < c.d \/ (o.d = c.d /\ o.g <= c.g)).e

\* _NUM_RE.sub(_repl, text), from position i on; spans are the matches
\* _repl replaced, as <<first, last>> positions of text
RECURSIVE MaskFrom(_, _, _, _)
MaskFrom(s, i, st, q) ==
    Then(st,
         IF i > Len(s) THEN st
         ELSE LET e == NumMatchEnd(s, i)
                  masked == RandomBelow(st.rng, q)
              IN
              IF e = 0
              THEN MaskFrom(s, i + 1, [st EXCEPT !.out = Append(@, s[i])], q)
              ELSE MaskFrom(s, e + 1,
                       [out   |-> st.out \o (IF masked THEN NUM
                                             ELSE SubSeq(s, i, e)),
                        rng   |-> Advance(st.rng),
                        spans |-> IF masked THEN st.spans \cup {<<i, e>>}
                                  ELSE st.spans],
                       q))

mask_numbers(t, q, g) ==
    IF q <= 0 THEN [out |-> t, rng |-> g, spans |-> {}]
    ELSE MaskFrom(t, 1, [out |-> <<>>, rng |-> g, spans |-> {}], q)

(***************************************************************************)
(* drop_fillers.                                                           *)
(***************************************************************************)
\* \b before position i: exactly one of s[i-1], s[i] is a word character
WordBoundary(s, i) ==
    LET left  == i > 1 /\ i - 1 <= Len(s) /\ IsWord(s[i - 1])
        right == i >= 1 /\ i <= Len(s) /\ IsWord(s[i])
    IN  left # right

\* the end of the greedy [,. ]* starting at i: the last position it takes
RECURSIVE TrailEnd(_, _)
TrailEnd(s, i) ==
    IF i <= Len(s) /\ s[i] \in {",", ".", " "} THEN TrailEnd(s, i + 1)
    ELSE i - 1

\* rf"\b{re.escape(f)}[,. ]*" matching at i: its last position, or 0
FillerMatchEnd(s, f, i) ==
    IF WordBoundary(s, i) /\ IsAt(s, f, i) THEN TrailEnd(s, i + Len(f)) ELSE 0

\* re.sub(rf"\b{re.escape(f)}[,. ]*", "", s), from position i on
RECURSIVE DropFrom(_, _, _)
DropFrom(s, f, i) ==
    IF i > Len(s) THEN <<>>
    ELSE LET e == FillerMatchEnd(s, f, i) IN
         IF e = 0 THEN <<s[i]>> \o DropFrom(s, f, i + 1)
         ELSE DropFrom(s, f, e + 1)

\* re.sub(r"\s+", " ", s), from position i on
RECURSIVE CollapseFrom(_, _)
CollapseFrom(s, i) ==
    IF i > Len(s) THEN <<>>
    ELSE IF IsSpace(s[i])
         THEN (IF i > 1 /\ IsSpace(s[i - 1]) THEN <<>> ELSE <<" ">>)
              \o CollapseFrom(s, i + 1)
         ELSE <<s[i]>> \o CollapseFrom(s, i + 1)

\* s.strip()
Strip(s) ==
    LET keep == {i \in 1..Len(s) : ~IsSpace(s[i])} IN
    IF keep = {} THEN <<>>
    ELSE SubSeq(s, CHOOSE i \in keep : \A j \in keep : i <= j,
                   CHOOSE i \in keep : \A j \in keep : i >= j)

\* re.sub(r"\s+", " ", out), the strip() left out
CollapseOnly(s) == CollapseFrom(s, 1)

\* re.sub(r"\s+", " ", out).strip()
NormalizeSpace(s) == Strip(CollapseFrom(s, 1))

\* the loop over FILLERS; dropped are the fillers whose trial succeeded
RECURSIVE FillerLoop(_, _, _)
FillerLoop(i, st, q) ==
    Then(st,
         IF i > Len(FILLERS) THEN st
         ELSE LET hit == RandomBelow(st.rng, q) IN
              FillerLoop(i + 1,
                  [out     |-> IF hit THEN DropFrom(st.out, FILLERS[i], 1)
                               ELSE st.out,
                   rng     |-> Advance(st.rng),
                   dropped |-> IF hit THEN st.dropped \cup {i}
                               ELSE st.dropped],
                  q))

\* drop_fillers without its `if p <= 0: return text`
drop_fillers_unguarded(t, q, g) ==
    LET st == FillerLoop(1, [out |-> t, rng |-> g, dropped |-> {}], q)
    IN  [st EXCEPT !.out = NormalizeSpace(@)]

drop_fillers(t, q, g) ==
    IF q <= 0 THEN [out |-> t, rng |-> g, dropped |-> {}]
    ELSE LET st == FillerLoop(1, [out |-> t, rng |-> g, dropped |-> {}], q)
         IN  [st EXCEPT !.out = NormalizeSpace(@)]

(***************************************************************************)
(* punct_jitter.                                                           *)
(***************************************************************************)
\* one pass of the loop body, for the character ch
JitterChar(ch, st, q) ==
    LET g1 == Advance(st.rng) IN
    IF ch \in {"?", "!"} /\ RandomBelow(st.rng, q)
    THEN [out |-> st.out \o random_choice(
                     << <<ch, ch>>, <<"!", "?">>, <<"?", "!">>, <<ch>> >>, g1),
          rng |-> Advance(g1)]
    ELSE IF ch \in {"?", "!"}
    THEN [out |-> Append(st.out, ch), rng |-> g1]
    ELSE IF ch = "," /\ RandomBelow(st.rng, q)
    THEN [out |-> st.out \o random_choice(
                     << <<",", " ">>, <<",">>, <<";", " ">> >>, g1),
          rng |-> Advance(g1)]
    ELSE IF ch = ","
    THEN [out |-> Append(st.out, ch), rng |-> g1]
    ELSE [st EXCEPT !.out = Append(@, ch)]

RECURSIVE JitterFrom(_, _, _, _)
JitterFrom(s, i, st, q) ==
    Then(st,
         IF i > Len(s) THEN st
         ELSE JitterFrom(s, i + 1, JitterChar(s[i], st, q), q))

punct_jitter(t, q, g) ==
    IF q <= 0 THEN [out |-> t, rng |-> g]
    ELSE JitterFrom(t, 1, [out |-> <<>>, rng |-> g], q)

(***************************************************************************)
(* augment_dialogue.                                                       *)
(***************************************************************************)
\* out = mask_numbers(out, cfg.p_mask_num), on what replace_phrases returned
ThenMaskNumbers(o, q) == Then(o, mask_numbers(o.out, q, o.rng))

\* out = drop_fillers(out, cfg.p_drop_filler)
ThenDropFillers(o, q) == Then(o, drop_fillers(o.out, q, o.rng))

\* out = punct_jitter(out, cfg.p_punct)
ThenPunctJitter(o, q) == Then(o, punct_jitter(o.out, q, o.rng))

augment_dialogue(t, c, g) ==
    ThenPunctJitter(
        ThenDropFillers(
            ThenMaskNumbers(replace_phrases(t, c.p_syn, g), c.p_mask_num),
            c.p_drop_filler),
        c.p_punct)

(***************************************************************************)
(* The dataset assembler: ensure_unique_fname, compute_aug_count,          *)
(* run_augment.  A row is [fname, dialogue, summary, topic]; fname,        *)
(* summary and topic are strings.                                          *)
(***************************************************************************)
\* AugmentConfig(seed=seed): the dataclass defaults, in tenths
AugmentConfig ==
    [p_syn |-> 3, p_mask_num |-> 4, p_drop_filler |-> 5, p_punct |-> 2]

\* f"{fname}_aug{idx}"
ensure_unique_fname(fname, idx) == fname \o "_aug" \o ToString(idx)

\* round(a / 2) of a float that is a >= 0 halves: to nearest, ties to even
RoundHalves(a) ==
    LET q == a \div 2 IN
    IF a % 2 = 0 THEN q
    ELSE IF q % 2 = 0 THEN q ELSE q + 1

\* compute_aug_count(n_rows, factor), factor in halves
compute_aug_count(n_rows, f) ==
    IF f <= 0 THEN 0 ELSE Max(1, RoundHalves(n_rows * f))

\* df.head(limit)
df_head(d, k) ==
    IF k >= 0 THEN SubSeq(d, 1, IF k < Len(d) THEN k ELSE Len(d))
    ELSE SubSeq(d, 1, Max(Len(d) + k, 0))

\* [random.randrange(n) for _ in range(m)], n > 0; indices are 0-based
RECURSIVE SampleIdx(_, _, _)
SampleIdx(m, n, st) ==
    Then(st,
         IF m = 0 THEN st
         ELSE SampleIdx(m - 1, n,
                  [idx |-> Append(st.idx, RandRange(st.rng, n)),
                   rng |-> Advance(st.rng)]))

\* the body of the loop over enumerate(sample_idx): the row appended for
\* the i-th (0-based) sampled index, given the augmented dialogue
NewRow(row, i, aug, st) ==
    [rows |-> Append(st.rows,
                 [fname    |-> ensure_unique_fname(row.fname, i),
                  dialogue |-> aug.out,
                  summary  |-> row.summary,
                  topic    |-> row.topic]),
     rng  |-> aug.rng]

\* the loop over enumerate(sample_idx), from the i-th on
RECURSIVE AugmentRows(_, _, _, _, _)
AugmentRows(d, idx, i, c, st) ==
    Then(st,
         IF i >= Len(idx) THEN st
         ELSE AugmentRows(d, idx, i + 1, c,
                  NewRow(d[idx[i + 1] + 1], i,
                         augment_dialogue(d[idx[i + 1] + 1].dialogue, c, st.rng),
                         st)))

\* pd.concat([df_aug, df], ignore_index=True): the frames swapped
ConcatSwapped(d, aug) == aug \o d

\* pd.concat([df, df_aug], ignore_index=True)
Concat(d, aug) == d \o aug

\* what a call leaves behind: rows is what to_csv wrote (wrote says whether
\* it ran), ret the value returned, exc the exception that ended the call,
\* sample_idx the indices drawn
Outcome(g, w, rows, e, r, idx) ==
    [rng |-> g, wrote |-> w, rows |-> rows, exc |-> e, ret |-> r,
     sample_idx |-> idx]

\* df_out is built, written and counted
WriteOut(n, df_out, idx, g) ==
    Outcome(g, TRUE, df_out, "", <<n, Len(df_out)>>, idx)

\* df_aug is appended to df
Assemble(d, idx, au) == WriteOut(Len(d), Concat(d, au.rows), idx, au.rng)

\* the rows of the sampled indices are augmented, in the order sampled
AugmentSampled(d, sm, c) ==
    Then(sm,
         Assemble(d, sm.idx,
             AugmentRows(d, sm.idx, 0, c, [rows |-> <<>>, rng |-> sm.rng])))

\* run_augment from `n = len(df)` on, for the rows d kept by the limit
AugmentFrame(d, f, c, g0) ==
    IF compute_aug_count(Len(d), f) = 0
    THEN Outcome(g0, TRUE, d, "", <<Len(d), 0>>, <<>>)
    ELSE IF Len(d) = 0
    \* random.randrange(0) raises ValueError("empty range for randrange()")
    THEN Outcome(g0, FALSE, <<>>, "ValueError", <<>>, <<>>)
    ELSE AugmentSampled(d,
             SampleIdx(compute_aug_count(Len(d), f), Len(d),
                 [idx |-> <<>>, rng |-> g0]),
             c)

\* run_augment on an input that has the four required columns
run_augment(input, f, s, lim, g) ==
    AugmentFrame(IF lim = <<>> THEN input ELSE df_head(input, lim[1]),
                 f, AugmentConfig, RandomSeed(g, s))

(***************************************************************************)
(* Inputs.                                                                 *)
(***************************************************************************)
\* the texts made of at most n of the segments segs
RECURSIVE TextsOf(_, _)
TextsOf(segs, n) ==
    IF n = 0 THEN {<<>>}
    ELSE LET shorter == TextsOf(segs, n - 1) IN
         shorter \cup {t \o sg : t \in shorter, sg \in segs}

Person1 == <<"#", "P", "e", "r", "s", "o", "n", "1", "#">>

PhraseSegs ==
    {<<"An", "Nyeong", "Ha", "Se", "Yo">>, <<"An", "Nyeong">>, <<"Mi", "An">>,
     <<"Gam", "Sa", "Hap", "Ni", "Da">>, <<"Jeong", "Mal">>,
     <<"Ui", "Sa", " ", "Seon", "Saeng", "Nim">>, <<"Mi">>, <<" ">>}

NumberSegs ==
    {<<"1">>, <<"1", "2">>, <<"1", ".", "2">>, <<"1", ",", "2">>, <<".">>,
     <<"a">>, <<"#">>, <<" ">>, Person1}

FillerSegs ==
    {<<"Eum">>, <<"A">>, <<"Eum", ".", ".", ".">>, <<"Eu", "Eum">>,
     <<"Beo", "Ji">>, <<"Ma">>, <<",", " ">>, <<" ">>, <<"\n">>}

MixedSegs ==
    {<<" ">>, <<"\n">>, <<"Na">>, <<"A">>, <<"Mi", "An">>, <<"1">>, <<"?">>}

Streams == [1..StreamLen -> 0..(RandRes - 1)]

\* the states the generator can be in when a function is called
Generators == {[stream |-> s, pos |-> 0] : s \in Streams}

\* probabilities, in tenths: below 0, 0, between, 1
Probs == {-5, 0, 5, 10}

Uniform(q) ==
    [p_syn |-> q, p_mask_num |-> q, p_drop_filler |-> q, p_punct |-> q]

Configs ==
    {Uniform(q) : q \in Probs}
        \cup {AugmentConfig,
              [Uniform(10) EXCEPT !.p_drop_filler = 0],
              [Uniform(0) EXCEPT !.p_drop_filler = 10]}

RowPool ==
    {[fname |-> "a", dialogue |-> <<"Mi", "An", ",", " ", "1">>,
      summary |-> "s1", topic |-> "t1"],
     [fname |-> "a_aug0", dialogue |-> <<"Eum", " ", "2", "?">>,
      summary |-> "s2", topic |-> "t2"],
     [fname |-> "b", dialogue |-> Person1 \o <<" ", "Na">>,
      summary |-> "s3", topic |-> "t1"]}

\* datasets: rows of the pool, their fname pairwise distinct
Datasets ==
    {d \in UNION {[1..n -> RowPool] : n \in 0..MaxRows} :
        \A i, j \in 1..Len(d) : i # j => d[i].fname # d[j].fname}

Factors == {-1, 0, 1, 2, 3}
Limits == {<<>>, <<0>>, <<1>>}

(***************************************************************************)
(* The transforms, each called once on a text.                             *)
(***************************************************************************)
NoRun ==
    /\ df = <<>>
    /\ factor = 0
    /\ limit = <<>>
    /\ seed = <<>>
    /\ written = <<>>
    /\ ret = <<>>

InitCall(texts) ==
    /\ pc = "ready"
    /\ text \in texts
    /\ p = 0
    /\ cfg = AugmentConfig
    /\ rng \in Generators
    /\ res = [out |-> <<>>]
    /\ NoRun

Returned(name, q, c, r) ==
    /\ pc' = name
    /\ p' = q
    /\ cfg' = c
    /\ res' = r
    /\ rng' = r.rng
    /\ UNCHANGED <<text, df, factor, limit, seed, written, ret>>

CallReplacePhrases ==
    /\ pc = "ready"
    /\ \E q \in Probs :
          Returned("replace_phrases", q, cfg, replace_phrases(text, q, rng))

CallMaskNumbers ==
    /\ pc = "ready"
    /\ \E q \in Probs :
          Returned("mask_numbers", q, cfg, mask_numbers(text, q, rng))

CallDropFillers ==
    /\ pc = "ready"
    /\ \E q \in Probs :
          Returned("drop_fillers", q, cfg, drop_fillers(text, q, rng))

CallPunctJitter ==
    /\ pc = "ready"
    /\ \E q \in Probs :
          Returned("punct_jitter", q, cfg, punct_jitter(text, q, rng))

CallAugmentDialogue ==
    /\ pc = "ready"
    /\ \E c \in Configs :
          Returned("augment_dialogue", p, c, augment_dialogue(text, c, rng))

SpecPhrases ==
    InitCall(TextsOf(PhraseSegs, MaxSegs)) /\ [][CallReplacePhrases]_vars

SpecNumbers ==
    InitCall(TextsOf(NumberSegs, MaxSegs)) /\ [][CallMaskNumbers]_vars

SpecFillers ==
    InitCall(TextsOf(FillerSegs, MaxSegs)) /\ [][CallDropFillers]_vars

NextTransform ==
    \/ CallReplacePhrases
    \/ CallMaskNumbers
    \/ CallDropFillers
    \/ CallPunctJitter
    \/ CallAugmentDialogue

SpecTransforms ==
    InitCall(TextsOf(MixedSegs, MaxSegs)) /\ [][NextTransform]_vars

(***************************************************************************)
(* run_augment, called MaxRuns times in one process on the same input.     *)
(***************************************************************************)
Init ==
    /\ pc = "ready"
    /\ text = <<>>
    /\ p = 0
    /\ cfg = AugmentConfig
    /\ res = [out |-> <<>>]
    /\ df \in Datasets
    /\ factor \in Factors
    /\ limit \in Limits
    /\ seed \in Streams
    \* the generator is in some state before random.seed is called
    /\ rng \in {[stream |-> seed, pos |-> k] : k \in 0..(StreamLen - 1)}
    /\ written = <<>>
    /\ ret = <<>>

Ran(r) ==
    /\ rng' = r.rng
    /\ res' = r
    /\ written' = Append(written, [wrote |-> r.wrote, rows |-> r.rows])
    /\ ret' = Append(ret, [exc |-> r.exc, value |-> r.ret])
    /\ pc' = "run_augment"
    /\ UNCHANGED <<text, p, cfg, df, factor, limit, seed>>

RunAugment ==
    /\ Len(ret) < MaxRuns
    /\ Ran(run_augment(df, factor, seed, limit, rng))

Next == RunAugment

Spec == Init /\ [][Next]_vars

(***************************************************************************)
(* Properties of run_augment (specification Spec).                         *)
(***************************************************************************)
Min(a, b) == IF a <= b THEN a ELSE b

\* the number of source rows considered: the rows of the input, after the
\* optional limit
Considered == IF limit = <<>> THEN Len(df) ELSE Min(limit[1], Len(df))

Runs == 1..Len(ret)

Ids(rows) == [i \in 1..Len(rows) |-> rows[i].fname]

PairwiseDistinct(sq) == \A i, j \in 1..Len(sq) : i # j => sq[i] # sq[j]

\* C1: whenever the original ids are pairwise distinct, all ids of the
\* output of run_augment are pairwise distinct, a synthetic id never being
\* equal to an original row's id.
C1_OutputIdsDistinct ==
    \A r \in Runs :
        (PairwiseDistinct(Ids(df)) /\ written[r].wrote)
            => PairwiseDistinct(Ids(written[r].rows))

\* the integers nearest to n * f / 2 (both neighbours at a tie)
Rounded(n, f) == {k \in 0..(n * f) : 2 * k - n * f \in {-1, 0, 1}}

\* C2: for every number n >= 0 of source rows considered and every factor,
\* run_augment completes without error and writes n + m rows, m = 0 if
\* factor <= 0 and max(1, round(n * factor)) otherwise, the m source
\* indices drawn from [0, n).
C2_CompletesWithCount ==
    \A r \in Runs :
        /\ ret[r].exc = ""
        /\ written[r].wrote
        /\ \E m \in IF factor <= 0 THEN {0}
                    ELSE {Max(1, k) : k \in Rounded(Considered, factor)} :
              /\ Len(written[r].rows) = Considered + m
              /\ Len(res.sample_idx) = m
        /\ \A i \in 1..Len(res.sample_idx) :
              res.sample_idx[i] \in 0..(Considered - 1)

\* C3: the pair returned is (rows_in, rows_out): the number of source rows
\* considered and the number of rows written to the output, for every factor.
C3_ReturnsRowCounts ==
    \A r \in Runs :
        ret[r].exc = ""
            => ret[r].value = <<Considered, Len(written[r].rows)>>

\* C4: in the output, rows 0..n-1 are the original rows, unchanged and in
\* their order, and row n+i is the synthetic row generated i-th: summary and
\* topic of the source row sampled for i, id {source id}_aug{i}.
C4_OutputLayout ==
    (pc = "run_augment" /\ res.wrote) =>
        LET rows == res.rows
            n    == Considered
            idx  == res.sample_idx
        IN  /\ Len(rows) = n + Len(idx)
            /\ \A i \in 1..n : rows[i] = df[i]
            /\ \A i \in 0..(Len(idx) - 1) :
                  LET src == df[idx[i + 1] + 1]
                      syn == rows[n + i + 1]
                  IN  /\ syn.fname = src.fname \o "_aug" \o ToString(i)
                      /\ syn.summary = src.summary
                      /\ syn.topic = src.topic

\* a run that sampled two rows or more and changed the dialogue of one
C4_Witness ==
    /\ pc = "run_augment"
    /\ res.wrote
    /\ Len(res.sample_idx) >= 2
    /\ \E i \in 1..Len(res.sample_idx) :
          res.rows[Considered + i].dialogue
              # df[res.sample_idx[i] + 1].dialogue

\* C5: two runs with the same input, factor, limit and seed produce the
\* same output and return the same value.
C5_Reproducible ==
    \A r1, r2 \in Runs : written[r1] = written[r2] /\ ret[r1] = ret[r2]

\* two runs done, whose random decisions changed a dialogue
C5_Witness ==
    /\ Len(ret) >= 2
    /\ written[2].wrote
    /\ \E i \in 1..Len(res.sample_idx) :
          written[2].rows[Considered + i].dialogue
              # df[res.sample_idx[i] + 1].dialogue

(***************************************************************************)
(* Properties of replace_phrases (specification SpecPhrases).              *)
(***************************************************************************)
Occurrences(s, key) == {i \in 1..Len(s) : IsAt(s, key, i)}

\* C6, as claimed: with p_syn = 1 every lexicon key present in the input
\* text has exactly one of its occurrences replaced.
C6_EveryPresentKeyReplaced ==
    (pc = "replace_phrases" /\ p = 10) =>
        \A k \in 1..Len(keys_sorted) :
            Contains(text, keys_sorted[k]) =>
                Cardinality({j \in 1..Len(res.trace) :
                    res.trace[j].key = keys_sorted[k] /\ res.trace[j].hit}) = 1

\* C6, amended: with p_syn = 1 the keys are visited once each, longest
\* first; a key present in the text as it stands when visited has exactly
\* its leftmost occurrence replaced by one of its alternatives, and a key
\* absent then leaves the text as it is.
C6_LeftmostOfEvolvingText ==
    (pc = "replace_phrases" /\ p = 10) =>
        /\ Len(res.trace) = Len(keys_sorted)
        /\ \A k \in 1..Len(res.trace) :
              LET e   == res.trace[k]
                  occ == Occurrences(e.before, e.key)
              IN  /\ e.key = keys_sorted[k]
                  /\ k > 1 => Len(e.key) <= Len(res.trace[k - 1].key)
                  /\ e.before = IF k = 1 THEN text ELSE res.trace[k - 1].after
                  /\ occ = {} => e.after = e.before
                  /\ occ # {} =>
                        \E i \in occ :
                            /\ \A j \in occ : i <= j
                            /\ \E a \in 1..Len(Synonyms(e.key)) :
                                  e.after =
                                      SubSeq(e.before, 1, i - 1)
                                          \o Synonyms(e.key)[a]
                                          \o SubSeq(e.before, i + Len(e.key),
                                                    Len(e.before))
        /\ res.out = res.trace[Len(res.trace)].after

\* p_syn = 1; a longer key is replaced, and with it goes a shorter key of
\* the input text, which is not replaced when its turn comes
C6_Witness ==
    /\ pc = "replace_phrases"
    /\ p = 10
    /\ \E k \in 1..Len(res.trace) :
          /\ Contains(text, res.trace[k].key)
          /\ ~res.trace[k].hit
          /\ \E j \in 1..(k - 1) :
                /\ res.trace[j].hit
                /\ Contains(res.trace[j].before, res.trace[k].key)
                /\ ~Contains(res.trace[j].after, res.trace[k].key)

(***************************************************************************)
(* Properties of mask_numbers (specification SpecNumbers).                 *)
(***************************************************************************)
\* the maximal runs of digits of s, as <<first, last>>
DigitRuns(s) ==
    {sp \in (1..Len(s)) \X (1..Len(s)) :
        /\ sp[1] <= sp[2]
        /\ \A j \in sp[1]..sp[2] : IsDigit(s[j])
        /\ sp[1] > 1 => ~IsDigit(s[sp[1] - 1])
        /\ sp[2] < Len(s) => ~IsDigit(s[sp[2] + 1])}

\* the numeric tokens of s: a digit run, optionally followed by one '.' or
\* ',' and a digit run
NumericTokens(s) ==
    DigitRuns(s) \cup
        {<<pr[1][1], pr[2][2]>> : pr \in
            {pr \in DigitRuns(s) \X DigitRuns(s) :
                /\ pr[2][1] = pr[1][2] + 2
                /\ s[pr[1][2] + 1] \in {".", ","}}}

\* the token is immediately preceded or followed by a word character or '#'
Touches(s, tk) ==
    \/ tk[1] > 1 /\ IsTagOrWord(s[tk[1] - 1])
    \/ tk[2] < Len(s) /\ IsTagOrWord(s[tk[2] + 1])

\* C7: mask_numbers replaces whole numeric tokens only, and no digit of a
\* numeric token that touches a word character or '#' is changed.
C7_TouchingTokensKept ==
    pc = "mask_numbers" =>
        \A sp \in res.spans :
            /\ sp \in NumericTokens(text)
            /\ \A tk \in NumericTokens(text) :
                  Touches(text, tk) => (tk[2] < sp[1] \/ sp[2] < tk[1])

(***************************************************************************)
(* Properties of drop_fillers (specification SpecFillers).                 *)
(***************************************************************************)
\* the words of s: its maximal runs of word characters
Words(s) ==
    {SubSeq(s, sp[1], sp[2]) : sp \in
        {sp \in (1..Len(s)) \X (1..Len(s)) :
            /\ sp[1] <= sp[2]
            /\ \A j \in sp[1]..sp[2] : IsWord(s[j])
            /\ sp[1] > 1 => ~IsWord(s[sp[1] - 1])
            /\ sp[2] < Len(s) => ~IsWord(s[sp[2] + 1])}}

\* w is longer than a filler it begins with
BeginsWithFiller(w) ==
    \E i \in 1..Len(FILLERS) :
        /\ \A j \in 1..Len(FILLERS[i]) : IsWord(FILLERS[i][j])
        /\ Len(w) > Len(FILLERS[i])
        /\ IsAt(w, FILLERS[i], 1)

\* C8: drop_fillers removes standalone fillers only: no character of a
\* longer word that merely begins with a filler is removed.
C8_LongerWordsKept ==
    pc = "drop_fillers" =>
        \A w \in Words(text) : BeginsWithFiller(w) => w \in Words(res.out)

(***************************************************************************)
(* Properties of the four transforms and augment_dialogue (specification   *)
(* SpecTransforms).  Each call starts with no output drawn: pos = 0.       *)
(***************************************************************************)
Transforms ==
    {"replace_phrases", "mask_numbers", "drop_fillers", "punct_jitter"}

\* C9: a transform called with p <= 0 returns its input unchanged and draws
\* nothing; so does augment_dialogue when all four probabilities are <= 0.
C9_NonPositiveIsIdentity ==
    /\ (pc \in Transforms /\ p <= 0) => (res.out = text /\ rng.pos = 0)
    /\ (/\ pc = "augment_dialogue"
        /\ cfg.p_syn <= 0
        /\ cfg.p_mask_num <= 0
        /\ cfg.p_drop_filler <= 0
        /\ cfg.p_punct <= 0) => (res.out = text /\ rng.pos = 0)

\* drop_fillers with p <= 0 on a text the whitespace pass would change
C9_Witness ==
    /\ pc = "drop_fillers"
    /\ p <= 0
    /\ Len(text) >= 2
    /\ IsSpace(text[1])
    /\ res.out = text

\* the text holds a digit run that touches no word character and no '#'
HasNumericToken(s) == \E tk \in DigitRuns(s) : ~Touches(s, tk)

\* no stage finds anything to do in s
NothingToDo(s) ==
    /\ \A i \in 1..Len(PHRASE_SYNONYMS) : ~Contains(s, PHRASE_SYNONYMS[i].key)
    /\ ~HasNumericToken(s)
    /\ \A i \in 1..Len(FILLERS) : ~Contains(s, FILLERS[i])
    /\ \A i \in 1..Len(s) : s[i] \notin {"?", "!", ","}

RECURSIVE SplitFrom(_, _, _)
SplitFrom(s, i, cur) ==
    IF i > Len(s) THEN (IF cur = <<>> THEN <<>> ELSE <<cur>>)
    ELSE IF IsSpace(s[i])
         THEN (IF cur = <<>> THEN <<>> ELSE <<cur>>) \o SplitFrom(s, i + 1, <<>>)
         ELSE SplitFrom(s, i + 1, Append(cur, s[i]))

\* " ".join(fields)
RECURSIVE JoinSpace(_)
JoinSpace(fields) ==
    IF fields = <<>> THEN <<>>
    ELSE IF Len(fields) = 1 THEN fields[1]
    ELSE fields[1] \o <<" ">> \o JoinSpace(Tail(fields))

====
